---- MODULE Spec2Model ----
(***************************************************************************)
(* A model of dice_roller.py: the die classes, the pickle-backed store of  *)
(* custom dice, and the recursive text menus.                              *)
(*                                                                         *)
(* A Python str is a sequence of one-character strings.  A Python call     *)
(* stack is the sequence of the source lines of the pending calls (return  *)
(* addresses), innermost last.  One action handles one line read by        *)
(* input() and runs the program up to the next input() call, to the end of *)
(* run(), or to an uncaught exception.                                     *)
(***************************************************************************)
EXTENDS Integers, Sequences, FiniteSets, TLC

(***************************************************************************)
(* Bounds of the model.                                                    *)
(***************************************************************************)
\* the registry holds at most this many custom dice (loaded plus created)
MaxCustom == 2
\* a line typed at the value-entry prompt has at most this many characters
MaxLineLen == 3
\* the call stack holds at most this many pending calls
MaxDepth == 10
\* a roll count typed at the roll-count prompt is at most this
MaxRolls == 2

\* the longest batch of the roll prompt taken alone
MaxBatch == 6

\* direct calls: faces of a die, spots of a classic die, values and columns
\* of a table, changes made to a list
MaxFaces == 2

MaxSpots == 6

MaxTableLen == 6

MaxColumns == 3

MaxMutations == 1

(***************************************************************************)
(* Python str operations.                                                  *)
(***************************************************************************)
UpperChars == <<"A","B","C","D","E","F","G","H","I","J","K","L","M",
                "N","O","P","Q","R","S","T","U","V","W","X","Y","Z">>
LowerChars == <<"a","b","c","d","e","f","g","h","i","j","k","l","m",
                "n","o","p","q","r","s","t","u","v","w","x","y","z">>
DigitChars == <<"0","1","2","3","4","5","6","7","8","9">>

IsDigit(c) == \E i \in 1..10 : DigitChars[i] = c

DigitVal(c) == (CHOOSE i \in 1..10 : DigitChars[i] = c) - 1

LowerChar(c) ==
    IF \E i \in 1..26 : UpperChars[i] = c
    THEN LowerChars[CHOOSE i \in 1..26 : UpperChars[i] = c]
    ELSE c

\* str.lower()
Lower(s) == [i \in 1..Len(s) |-> LowerChar(s[i])]

\* str.replace(" ", "")
RemoveSpaces(s) == SelectSeq(s, LAMBDA c : c /= " ")

\* str.strip() as int() applies it to its argument
RECURSIVE LStrip(_)
LStrip(s) == IF s /= <<>> /\ Head(s) = " " THEN LStrip(Tail(s)) ELSE s

RECURSIVE RStrip(_)
RStrip(s) ==
    IF s /= <<>> /\ s[Len(s)] = " " THEN RStrip(SubSeq(s, 1, Len(s) - 1)) ELSE s

Strip(s) == RStrip(LStrip(s))

\* str.split(','): the pieces between commas; "" gives [""]
RECURSIVE SplitFrom(_, _, _)
SplitFrom(s, i, cur) ==
    IF i > Len(s) THEN <<cur>>
    ELSE IF s[i] = "," THEN <<cur>> \o SplitFrom(s, i + 1, <<>>)
    ELSE SplitFrom(s, i + 1, Append(cur, s[i]))

Split(s) == SplitFrom(s, 1, <<>>)

\* the decimal value of a non-empty run of digits
RECURSIVE DigitsValue(_)
DigitsValue(s) ==
    IF s = <<>> THEN 0
    ELSE 10 * DigitsValue(SubSeq(s, 1, Len(s) - 1)) + DigitVal(s[Len(s)])

IsDigits(s) == s /= <<>> /\ \A i \in 1..Len(s) : IsDigit(s[i])

\* int(s): surrounding blanks dropped, an optional sign, then digits;
\* anything else raises ValueError (ok = FALSE)
IntParse(s) ==
    LET t    == Strip(s)
        sign == t /= <<>> /\ Head(t) \in {"-", "+"}
        body == IF sign THEN Tail(t) ELSE t
    IN  IF IsDigits(body)
        THEN [ok |-> TRUE,
              val |-> IF sign /\ Head(t) = "-" THEN 0 - DigitsValue(body)
                      ELSE DigitsValue(body)]
        ELSE [ok |-> FALSE, val |-> 0]

\* "{}".format(n) for an int n >= 0
RECURSIVE FormatInt(_)
FormatInt(n) ==
    IF n < 10 THEN <<DigitChars[n + 1]>>
    ELSE Append(FormatInt(n \div 10), DigitChars[(n % 10) + 1])

\* range(lo, hi) as a sequence
Range(lo, hi) == [i \in 1..(IF hi > lo THEN hi - lo ELSE 0) |-> lo + i - 1]

(***************************************************************************)
(* The die classes.  An object is [cls, _values, name]; the value held in  *)
(* _values is [type, items, objname]: a list or a range with its items, or *)
(* another die object (type = its class, items = its own faces, objname =  *)
(* its name), which supports neither len() nor indexing nor iteration.     *)
(***************************************************************************)
ListVal(s)  == [type |-> "list",  items |-> s, objname |-> <<>>]
RangeVal(s) == [type |-> "range", items |-> s, objname |-> <<>>]
ObjVal(d)   == [type |-> d.cls, items |-> d._values.items, objname |-> d.name]

\* len(v), v[i] and iteration are defined for sequences only
IsSequence(v) == v.type \in {"list", "range"}

GenericDieName == <<"g","e","n","e","r","i","c"," ","d","i","e">>

\* Die.__init__(values, name)
Die(values, name) == [cls |-> "Die", _values |-> values, name |-> name]

\* NumericalDie.__init__(num_values, name); the faces handed over here are
\* ints, so the type test of lines 72-74 passes
NumericalDie(num_values, name) ==
    [Die(num_values, name) EXCEPT !.cls = "NumericalDie"]

\* ClassicDie.__init__ with range(1, max_val + 1)
ClassicDie_FromOne(max_val, name) ==
    [NumericalDie(RangeVal(Range(1, max_val + 1)), name) EXCEPT !.cls = "ClassicDie"]

ClassicDieName == <<"c","l","a","s","s","i","c","a","l"," ","d","i","e">>

\* ClassicDie.__init__(max_val, name)
ClassicDie(max_val, name) ==
    [NumericalDie(RangeVal(Range(0, max_val + 1)), name) EXCEPT !.cls = "ClassicDie"]

\* Die.get_values(): list(self._values), TypeError when _values is no sequence
get_values(d) ==
    IF IsSequence(d._values)
    THEN [err |-> "none", val |-> d._values.items]
    ELSE [err |-> "TypeError", val |-> <<>>]

\* no die object (None)
NoDie == [cls |-> "None", _values |-> ListVal(<<>>), name |-> <<>>]

\* Die.roll(): the face at the index rand(len(self._values)) drew, counted
\* here from 1
roll(die, i) == die._values.items[i]

\* NumericalDie.__init__ with the test "isinstance(num, int)", which a bool passes
NewNumericalDie_IsInstance(num_values, name) ==
    IF \E i \in 1..Len(num_values) : num_values[i].type \notin {"int", "bool"}
    THEN [err |-> "ValueError", die |-> NoDie]
    ELSE [err |-> "none",
          die |-> NumericalDie(ListVal([i \in 1..Len(num_values) |-> num_values[i].val]), name)]

\* NumericalDie(num_values, name) on values of any type, each [type, val]:
\* ValueError, and no object, as soon as type(num) is not int (lines 72-74)
NewNumericalDie(num_values, name) ==
    IF \E i \in 1..Len(num_values) : num_values[i].type /= "int"
    THEN [err |-> "ValueError", die |-> NoDie]
    ELSE [err |-> "none",
          die |-> NumericalDie(ListVal([i \in 1..Len(num_values) |-> num_values[i].val]), name)]

\* get_values() returning self._values itself
Die_get_values_SameList(heap, self) == [heap |-> heap, ref |-> self._values]

\* Die.get_values() on a die whose _values is the address of a list in the
\* heap: list(self._values) is a new list with the same items
Die_get_values(heap, self) ==
    [heap |-> Append(heap, heap[self._values]), ref |-> Len(heap) + 1]

BuiltinSpots == <<4, 6, 8, 10, 12, 20>>

NumBuiltin == Len(BuiltinSpots)

\* the module-level _all_dice of line 172
InitialDice ==
    [i \in 1..NumBuiltin |->
        Die(ObjVal(ClassicDie(BuiltinSpots[i], <<"D">> \o FormatInt(BuiltinSpots[i]))),
            GenericDieName)]

(***************************************************************************)
(* Statistics of a roll batch (NumericalDie._additional_values).           *)
(***************************************************************************)
RECURSIVE _sum(_)
_sum(rolls) == IF rolls = <<>> THEN 0 ELSE Head(rolls) + _sum(Tail(rolls))

RECURSIVE Gcd(_, _)
Gcd(a, b) == IF b = 0 THEN a ELSE Gcd(b, a % b)

Abs(a) == IF a < 0 THEN 0 - a ELSE a

\* the quotient num / den (den > 0) as a fraction in lowest terms
Fraction(num, den) ==
    LET g == Gcd(Abs(num), den)
    IN  [num |-> num \div g, den |-> den \div g]

\* _average with the floor division sum(rolls) // len(rolls)
_average_FloorDiv(rolls) == Fraction(_sum(rolls) \div Len(rolls), 1)

\* sum(rolls) / len(rolls): ZeroDivisionError on an empty batch
_average(rolls) == Fraction(_sum(rolls), Len(rolls))

_max(rolls) == CHOOSE m \in {rolls[i] : i \in 1..Len(rolls)} :
                   \A i \in 1..Len(rolls) : rolls[i] <= m

_min(rolls) == CHOOSE m \in {rolls[i] : i \in 1..Len(rolls)} :
                   \A i \in 1..Len(rolls) : m <= rolls[i]

\* NumericalDie._additional_values(rolls): (sum, average, max, min)
_additional_values(rolls) ==
    [sum |-> _sum(rolls), avg |-> _average(rolls), max |-> _max(rolls), min |-> _min(rolls)]

\* list.count(val)
Count(rolls, val) == Cardinality({i \in 1..Len(rolls) : rolls[i] = val})

(***************************************************************************)
(* The table of values (_print_table).                                     *)
(***************************************************************************)
\* str(n) for any int n
StrInt(n) == IF n < 0 THEN <<"-">> \o FormatInt(0 - n) ELSE FormatInt(n)

\* int(math.ceil(a / b)) for a >= 0 and b > 0
Ceil(a, b) == (a + b - 1) \div b

\* values[lo:hi] with 0 <= lo <= hi, the end clipped to the length as Python
\* clips it
Slice(values, lo, hi) ==
    SubSeq(values, lo + 1, IF hi < Len(values) THEN hi ELSE Len(values))

\* max(lens) of a non-empty set of ints
MaxOf(lens) == CHOOSE m \in lens : \A x \in lens : x <= m

\* the columns the program prints its tables with (line 192)
DefaultColumns == 5

DefaultPadding == 4

\* _print_table(values, columns, padding): the rows it prints, each row the
\* cells (index label, value) from left to right, and the two field widths.
\* max() of line 207 raises ValueError on an empty list, before any row;
\* row `row` shows values[row : row + columns] (lines 211-212) under the
\* labels columns * row + roll_index + 1 (line 214)
_print_table(values, columns, padding) ==
    LET val_len == Len(values)
        i_width == padding + Len(StrInt(val_len))
    IN  IF val_len = 0
        THEN [err |-> "ValueError", i_width |-> i_width, v_width |-> 0, rows |-> <<>>]
        ELSE [err     |-> "none",
              i_width |-> i_width,
              v_width |-> padding + MaxOf({Len(StrInt(values[i])) : i \in 1..val_len}),
              rows    |->
                [r \in 1..Ceil(val_len, columns) |->
                    LET row       == r - 1
                        num_index == row + columns
                        num_rolls == Slice(values, row, num_index)
                    IN  [roll_index \in 1..Len(num_rolls) |->
                            [index |-> columns * row + (roll_index - 1) + 1,
                             val   |-> num_rolls[roll_index]]]]]

\* what _print_rolls puts on the screen: the table of the batch, the four
\* statistics and one frequency line per face of the die (rolls is the batch
\* handed to it)
RollDisplay(faces, rolls) ==
    [printed |-> TRUE,
     rolls   |-> rolls,
     table   |-> _print_table(rolls, DefaultColumns, DefaultPadding).rows,
     sum     |-> _sum(rolls),
     avg     |-> _average(rolls),
     max     |-> _max(rolls),
     min     |-> _min(rolls),
     freq    |-> [i \in 1..Len(faces) |->
                     [val |-> faces[i], count |-> Count(rolls, faces[i])]]]

NoDisplay ==
    [printed |-> FALSE, rolls |-> <<>>, table |-> <<>>, sum |-> 0,
     avg |-> [num |-> 0, den |-> 1], max |-> 0, min |-> 0, freq |-> <<>>]

(***************************************************************************)
(* The store: pickle.dump appends one self-delimiting record to the file,  *)
(* pickle.load reads the record that starts at the read position.          *)
(***************************************************************************)
Item(op, cls, str, int) == [op |-> op, cls |-> cls, str |-> str, int |-> int]

\* pickle.dump(die, file): the class, the attribute _values (a list of
\* ints), the attribute name, and the STOP mark
Dump(d) ==
    <<Item("OBJ", d.cls, <<>>, 0), Item("MARK", "", <<>>, 0)>>
    \o [i \in 1..Len(d._values.items) |-> Item("INT", "", <<>>, d._values.items[i])]
    \o <<Item("LIST", "", <<>>, 0), Item("STR", "", d.name, 0),
         Item("BUILD", "", <<>>, 0), Item("STOP", "", <<>>, 0)>>

\* the ints that follow position p, up to the LIST mark
RECURSIVE ReadInts(_, _)
ReadInts(data, p) ==
    IF p <= Len(data) /\ data[p].op = "INT"
    THEN <<data[p].int>> \o ReadInts(data, p + 1)
    ELSE <<>>

\* pickle.load(file) at read position p: EOFError at the end of the file,
\* else the object of the record and the position after its STOP mark
Load(data, p) ==
    IF p > Len(data) THEN [err |-> "EOFError", obj |-> Die(ListVal(<<>>), <<>>), next |-> p]
    ELSE LET ints == ReadInts(data, p + 2)
             q    == p + 2 + Len(ints)
         IN  IF /\ q + 3 <= Len(data)
                /\ data[p].op = "OBJ" /\ data[p + 1].op = "MARK"
                /\ data[q].op = "LIST" /\ data[q + 1].op = "STR"
                /\ data[q + 2].op = "BUILD" /\ data[q + 3].op = "STOP"
             THEN [err  |-> "none",
                   obj  |-> [cls |-> data[p].cls, _values |-> ListVal(ints),
                             name |-> data[q + 1].str],
                   next |-> q + 4]
             ELSE [err |-> "UnpicklingError", obj |-> Die(ListVal(<<>>), <<>>),
                   next |-> p]

\* LoadAll without its loop: one pickle.load
LoadAll_FirstOnly(data, p) ==
    LET r == Load(data, p)
    IN  IF r.err = "EOFError" THEN [err |-> "none", dice |-> <<>>]
        ELSE [err |-> r.err, dice |-> IF r.err = "none" THEN <<r.obj>> ELSE <<>>]

\* the loop of _load_saved_dice: every record from position p on, in file
\* order, until EOFError
RECURSIVE LoadAll(_, _)
LoadAll(data, p) ==
    LET r == Load(data, p)
    IN  IF r.err = "EOFError" THEN [err |-> "none", dice |-> <<>>]
        ELSE IF r.err /= "none" THEN [err |-> r.err, dice |-> <<>>]
        ELSE LET rest == LoadAll(data, r.next)
             IN  [err |-> rest.err, dice |-> <<r.obj>> \o rest.dice]

\* AppendRecord on a file opened with "wb": the new record replaces the old ones
AppendRecord_Truncate(data, d) == Dump(d)

\* the file after open(_file_path, "ab") and pickle.dump(die, file)
AppendRecord(data, d) == data \o Dump(d)

\* _create_user_dir_file on a storage state [dir, file, data]: the file is
\* opened for writing before the directory is made
_create_user_dir_file(fs) ==
    LET afterFile ==
            IF fs.file THEN [err |-> "none", fs |-> fs]
            ELSE IF fs.dir
                 THEN [err |-> "none", fs |-> [fs EXCEPT !.file = TRUE, !.data = <<>>]]
                 ELSE [err |-> "FileNotFoundError", fs |-> fs]
    IN  IF afterFile.err /= "none" THEN afterFile
        ELSE [err |-> "none", fs |-> [afterFile.fs EXCEPT !.dir = TRUE]]

(***************************************************************************)
(* Input handling.                                                         *)
(***************************************************************************)
_back == <<"b","a","c","k">>

\* sys.maxsize (of a 32-bit build)
SysMaxsize == 2147483647

\* _menu_input on one line: "int" an accepted number, "back" the back
\* command, "retry" a number out of range (error message, recursive call),
\* "none" anything else (the function falls off its end and returns None)
_menu_input(line, input_min, input_max) ==
    LET p == IntParse(line)
    IN  IF ~p.ok
        THEN IF Lower(line) = _back THEN [kind |-> "back", val |-> 0]
             ELSE [kind |-> "none", val |-> 0]
        ELSE IF input_min <= p.val /\ p.val <= input_max
             THEN [kind |-> "int", val |-> p.val]
             ELSE [kind |-> "retry", val |-> 0]

\* ParseTokens with the integers inserted at the front of num_values
RECURSIVE ParseTokens_Reversed(_)
ParseTokens_Reversed(tokens) ==
    IF tokens = <<>> THEN [num |-> <<>>, invalid |-> <<>>]
    ELSE LET rest == ParseTokens_Reversed(Tail(tokens))
             p    == IntParse(Head(tokens))
         IN  IF p.ok THEN [num |-> rest.num \o <<p.val>>, invalid |-> rest.invalid]
             ELSE [num |-> rest.num, invalid |-> <<Head(tokens)>> \o rest.invalid]

\* the loop of custom_numerical_die (lines 363-367) over the tokens
RECURSIVE ParseTokens(_)
ParseTokens(tokens) ==
    IF tokens = <<>> THEN [num |-> <<>>, invalid |-> <<>>]
    ELSE LET rest == ParseTokens(Tail(tokens))
             p    == IntParse(Head(tokens))
         IN  IF p.ok THEN [num |-> <<p.val>> \o rest.num, invalid |-> rest.invalid]
             ELSE [num |-> rest.num, invalid |-> <<Head(tokens)>> \o rest.invalid]

\* input().replace(" ", "").split(',')
Tokens(line) == Split(RemoveSpaces(line))

(***************************************************************************)
(* The lines a user may type.                                              *)
(***************************************************************************)
Lines(chars, n) == UNION {[1..k -> chars] : k \in 0..n}

\* the value-entry prompt: every line of at most MaxLineLen of these characters
ValueChars == {"1", "2", "x", ","}
ValueLines == Lines(ValueChars, MaxLineLen)

\* the value-entry lines of the whole-program specification: two dice, a
\* line with an invalid token, and two lines without any integer
FlowLines ==
    {<<"1", ",", "2">>, <<"2", ",", " ", "1">>, <<"x", ",", "1", ",", "2">>,
     <<"x">>, <<>>}

\* the name prompt
NameLines == {<<>>, <<"a">>}

\* the largest option number a menu of this model can show
MaxOption == NumBuiltin + MaxCustom + 1

\* the menu prompts and the roll-count prompt
MenuLines ==
    {_back, <<"B","a","c","K">>, <<"x">>, <<>>, <<"-","1">>, <<" ","1">>}
    \cup {FormatInt(i) : i \in 0..(MaxOption + 1)}

\* the confirmation prompt
ConfirmLines == {<<"y">>, <<"Y">>, <<"n">>, <<"N">>, <<"x">>, <<>>, <<"y","n">>}

\* the faces a custom die of this model can have, and the custom dice
CustomFaces == {ParseTokens(Tokens(l)).num : l \in FlowLines} \ {<<>>}
CustomDice  == {NumericalDie(ListVal(f), n) : f \in CustomFaces, n \in NameLines}

\* the sequences of at most n elements of S
SeqsUpTo(S, n) == UNION {[1..k -> S] : k \in 0..n}

\* the file that creating the dice of ds, one after the other, leaves behind
RECURSIVE DumpAll(_)
DumpAll(ds) == IF ds = <<>> THEN <<>> ELSE Dump(Head(ds)) \o DumpAll(Tail(ds))

(***************************************************************************)
(* State.                                                                  *)
(***************************************************************************)
VARIABLES
    pc,             \* where the program is: "start", "load", a prompt, "done", "crashed"
    stack,          \* the source lines of the pending calls, innermost last
    error,          \* the uncaught exception that ended the program, or "none"
    _all_dice,      \* the registry
    storage,        \* [dir, file, data]: the directory, the file and its content
    inp,            \* the line read last
    at,             \* where the program was when the last step began
    msg,            \* what the last step printed in reply
    closing,        \* how often "closing app..." was printed
    current_die,    \* _print_menu_roll's argument
    values_input,   \* custom_numerical_die's locals
    num_values,
    invalid_values,
    custom_die,     \* create_custom_die's local
    shown,          \* the roll display printed by the last step
    unit            \* a call made on the classes and helpers directly, with its result

vars == <<pc, stack, error, _all_dice, storage, inp, at, msg, closing, current_die,
          values_input, num_values, invalid_values, custom_die, shown, unit>>

\* no direct call: the classes are used through the menus only
NoCall == [fn |-> "none"]

\* the storage states a start can meet: nothing there, the directory alone,
\* or both with the records of earlier runs
InitialStorages ==
    {[dir |-> FALSE, file |-> FALSE, data |-> <<>>],
     [dir |-> TRUE,  file |-> FALSE, data |-> <<>>]}
    \cup {[dir |-> TRUE, file |-> TRUE, data |-> DumpAll(ds)] :
             ds \in SeqsUpTo(CustomDice, MaxCustom)}

Init ==
    /\ pc = "start"
    /\ stack = <<447>>
    /\ error = "none"
    /\ _all_dice = InitialDice
    /\ storage \in InitialStorages
    /\ inp = <<>>
    /\ at = "none"
    /\ msg = "none"
    /\ closing = 0
    /\ current_die = NoDie
    /\ values_input = <<>>
    /\ num_values = <<>>
    /\ invalid_values = <<>>
    /\ custom_die = NoDie
    /\ shown = NoDisplay
    /\ unit = NoCall

(***************************************************************************)
(* Control: where a step leaves the program.                               *)
(***************************************************************************)
Ctl(p, stk, e, m, c) == [pc |-> p, stack |-> stk, error |-> e, msg |-> m, closed |-> c]

\* an exception no handler catches
Raise(e) == Ctl("crashed", <<>>, e, "traceback", 0)

Pop(stk) == SubSeq(stk, 1, Len(stk) - 1)

Top(stk) == stk[Len(stk)]

\* PopWhile leaving one recursive call only
PopWhile_Once(stk, site) ==
    IF stk /= <<>> /\ stk[Len(stk)] = site THEN SubSeq(stk, 1, Len(stk) - 1) ELSE stk

\* leave the recursive calls made at line `site` (return f(...))
RECURSIVE PopWhile(_, _)
PopWhile(stk, site) ==
    IF stk /= <<>> /\ Top(stk) = site THEN PopWhile(Pop(stk), site) ELSE stk

\* _print_menu_main() called at line `site`: its menu waits for a line
EnterMainMenu(stk, site) == Ctl("MainMenu", stk \o <<site, 310, 301>>, "none", "main_menu", 0)

\* _print_menu_die() called at line `site`
EnterDieMenu(stk, site) == Ctl("DieMenu", stk \o <<site, 324, 301>>, "none", "die_menu", 0)

\* ReturnNone with line 326 calling _print_menu_main() without "return", so
\* that _print_menu_die goes on to its line 331
RECURSIVE ReturnNone_NoReturn326(_)
ReturnNone_NoReturn326(stk) ==
    IF stk = <<>> THEN Ctl("done", <<>>, "none", "none", 0)
    ELSE LET site == Top(stk)
             rest == Pop(stk)
         IN  CASE site = 420 ->
                    LET r == ReturnNone_NoReturn326(rest)
                    IN  Ctl(r.pc, r.stack, r.error, "closing", r.closed + 1)
               [] site \in {326, 330} -> EnterDieMenu(rest, 331)
               [] OTHER -> ReturnNone_NoReturn326(rest)

\* a function returns None to the call at the top of stk
RECURSIVE ReturnNone(_)
ReturnNone(stk) ==
    IF stk = <<>> THEN Ctl("done", <<>>, "none", "none", 0)
    ELSE LET site == Top(stk)
             rest == Pop(stk)
         IN  CASE site = 420 ->
                    \* run: print("closing app...") and return to line 447
                    LET r == ReturnNone(rest)
                    IN  Ctl(r.pc, r.stack, r.error, "closing", r.closed + 1)
               [] site = 330 ->
                    \* _print_menu_die after create_custom_die(): line 331
                    EnterDieMenu(rest, 331)
               [] OTHER ->
                    \* "return f(...)" (315, 326, 328, 331, 341, 403, 410, 411),
                    \* the last statement of a function (246), the end of the
                    \* script (447)
                    ReturnNone(rest)

(***************************************************************************)
(* What each prompt does with a line.                                      *)
(***************************************************************************)
\* _print_menu over n options (lines 301-302): the line read by _menu_input,
\* then None for back, the option for a number, and None - 1 (TypeError)
\* when _menu_input returned None
_print_menu(line, n) ==
    LET r == _menu_input(line, 1, n)
    IN  IF r.kind = "none" THEN [kind |-> "TypeError", val |-> 0] ELSE r

\* _print_menu_main (lines 310-315) on a line
_print_menu_main(stk, line) ==
    LET r    == _print_menu(line, 1)
        base == Pop(Pop(PopWhile(stk, 274)))
    IN  CASE r.kind = "retry"     -> Ctl("MainMenu", Append(stk, 274), "none", "input_error", 0)
          [] r.kind = "TypeError" -> Raise("TypeError")
          [] r.kind = "back"      -> ReturnNone(base)
          [] OTHER                -> EnterDieMenu(base, 315)

\* _print_menu_roll (lines 391-397) called at line `site` with a die
EnterRollMenu(stk, site, die) ==
    IF get_values(die).err /= "none" THEN Raise(get_values(die).err)
    ELSE Ctl("RollCount", stk \o <<site, 397>>, "none", "how_many", 0)

\* custom_numerical_die() called from create_custom_die(), itself called at `site`
EnterCreate(stk, site) == Ctl("Values", stk \o <<site, 336>>, "none", "enter_values", 0)

\* _print_menu_die (lines 324-331) on a line, with the registry dice
_print_menu_die(stk, line, dice) ==
    LET r    == _print_menu(line, Len(dice) + 1)
        base == Pop(Pop(PopWhile(stk, 274)))
    IN  CASE r.kind = "retry"     -> Ctl("DieMenu", Append(stk, 274), "none", "input_error", 0)
          [] r.kind = "TypeError" -> Raise("TypeError")
          [] r.kind = "back"      -> EnterMainMenu(base, 326)
          [] OTHER ->
                IF r.val <= Len(dice) THEN EnterRollMenu(base, 328, dice[r.val])
                ELSE EnterCreate(base, 330)

\* the die _print_menu_die hands to _print_menu_roll, if any
SelectedDie(line, dice) ==
    LET r == _print_menu(line, Len(dice) + 1)
    IN  IF r.kind = "int" /\ r.val <= Len(dice) THEN dice[r.val] ELSE NoDie

\* roll_multiple with a loop over range(times + 1)
roll_multiple_OneMore(die, times, idx) ==
    [i \in 1..(times + 1) |-> die._values.items[idx[IF i > times THEN times ELSE i]]]

\* Die.roll_multiple(times) with the outcomes idx of rand(len(self._values))
roll_multiple(die, times, idx) == [i \in 1..times |-> die._values.items[idx[i]]]

\* NumericalDie.roll_multiple(times): the batch and its statistics
numerical_roll_multiple(die, times, idx) ==
    LET rolls == roll_multiple(die, times, idx)
    IN  [rolls |-> rolls, info |-> _additional_values(rolls)]

\* _print_menu_roll without the try/except of lines 398-405: int(None) ends
\* the program
_print_menu_roll_NoHandler(stk, line, die, idx) ==
    LET r    == _menu_input(line, 1, SysMaxsize)
        base == Pop(PopWhile(stk, 274))
    IN  CASE r.kind = "retry" -> Ctl("RollCount", Append(stk, 274), "none", "input_error", 0)
          [] r.kind = "none"  -> Raise("TypeError")
          [] r.kind = "back"  -> Raise("ValueError")
          [] OTHER ->
                IF die.cls = "Die"
                THEN Raise(IF r.val = 1 THEN "IndexError" ELSE "TypeError")
                ELSE Ctl("DieMenu", base \o <<411, 246, 324, 301>>, "none", "rolls", 0)

\* _print_menu_roll (lines 397-411) on a line: the roll count, back, or
\* anything else; idx are the random indices of the rolls
_print_menu_roll(stk, line, die, idx) ==
    LET r    == _menu_input(line, 1, SysMaxsize)
        base == Pop(PopWhile(stk, 274))
    IN  CASE r.kind = "retry" -> Ctl("RollCount", Append(stk, 274), "none", "input_error", 0)
          [] r.kind = "none"  -> Ctl("RollCount", Append(base, 397), "none", "invalid_value", 0)
          [] r.kind = "back"  -> Raise("ValueError")
          [] OTHER ->
                IF die.cls = "Die"
                THEN Raise(IF r.val = 1 THEN "IndexError" ELSE "TypeError")
                ELSE Ctl("DieMenu", base \o <<411, 246, 324, 301>>, "none", "rolls", 0)

\* what _print_rolls shows for that line
RollsShown(line, die, idx) ==
    LET r == _menu_input(line, 1, SysMaxsize)
    IN  IF r.kind = "int" /\ die.cls /= "Die"
        THEN RollDisplay(get_values(die).val, roll_multiple(die, r.val, idx))
        ELSE NoDisplay

\* create_custom_die (lines 339-347) on the answer to "continue with these values?"
create_custom_die(stk, line) ==
    LET verify_die == Lower(line)
    IN  CASE verify_die = <<"n">> -> EnterCreate(stk, 341)
          [] verify_die = <<"y">> -> ReturnNone(stk)
          [] OTHER -> Ctl("Confirm", stk, "none", "enter_y_or_n", 0)

\* Saved with "elif verify_die == 'y'" turned into "else"
Saved_UnlessNo(line, dice, store, die) ==
    IF Lower(line) /= <<"n">>
    THEN [dice  |-> Append(dice, die),
          store |-> [store EXCEPT !.file = TRUE, !.data = AppendRecord(store.data, die)]]
    ELSE [dice |-> dice, store |-> store]

\* the registry and the file after that answer
Saved(line, dice, store, die) ==
    IF Lower(line) = <<"y">>
    THEN [dice  |-> Append(dice, die),
          store |-> [store EXCEPT !.file = TRUE, !.data = AppendRecord(store.data, die)]]
    ELSE [dice |-> dice, store |-> store]

(***************************************************************************)
(* Actions.                                                                *)
(***************************************************************************)
Goto(n) ==
    /\ Len(n.stack) <= MaxDepth
    /\ at' = pc
    /\ pc' = n.pc
    /\ stack' = n.stack
    /\ error' = n.error
    /\ msg' = n.msg
    /\ closing' = closing + n.closed
    /\ unit' = unit

\* run, line 418
EnsureStorage ==
    /\ pc = "start"
    /\ LET r == _create_user_dir_file(storage)
       IN  /\ storage' = r.fs
           /\ Goto(IF r.err = "none" THEN Ctl("load", stack, "none", "none", 0)
                   ELSE Raise(r.err))
    /\ UNCHANGED <<_all_dice, inp, current_die, values_input, num_values,
                   invalid_values, custom_die, shown>>

\* run, lines 419-420: _load_saved_dice, then the main menu
LoadSavedDice ==
    /\ pc = "load"
    /\ LET r == LoadAll(storage.data, 1)
       IN  /\ _all_dice' = _all_dice \o r.dice
           /\ Goto(IF r.err = "none" THEN EnterMainMenu(stack, 420) ELSE Raise(r.err))
    /\ UNCHANGED <<storage, inp, current_die, values_input, num_values,
                   invalid_values, custom_die, shown>>

\* MainMenu with an exit path that reopens the file for writing
MainMenu_TruncatesStore(line) ==
    /\ pc = "MainMenu"
    /\ inp' = line
    /\ Goto(_print_menu_main(stack, line))
    /\ shown' = NoDisplay
    /\ storage' = IF pc' = "done" THEN [storage EXCEPT !.data = <<>>] ELSE storage
    /\ UNCHANGED <<_all_dice, current_die, values_input, num_values,
                   invalid_values, custom_die>>

MainMenu(line) ==
    /\ pc = "MainMenu"
    /\ inp' = line
    /\ Goto(_print_menu_main(stack, line))
    /\ shown' = NoDisplay
    /\ UNCHANGED <<_all_dice, storage, current_die, values_input, num_values,
                   invalid_values, custom_die>>

DieMenu(line) ==
    /\ pc = "DieMenu"
    /\ inp' = line
    /\ LET n == _print_menu_die(stack, line, _all_dice)
       IN  /\ n.pc = "Values" => Len(_all_dice) - NumBuiltin < MaxCustom
           /\ Goto(n)
           /\ current_die' = IF n.pc = "RollCount" THEN SelectedDie(line, _all_dice)
                             ELSE NoDie
    /\ shown' = NoDisplay
    /\ UNCHANGED <<_all_dice, storage, values_input, num_values, invalid_values,
                   custom_die>>

\* _print_menu_roll on a line, for batches of at most `most` rolls
RollBatch(line, most) ==
    /\ pc = "RollCount"
    /\ inp' = line
    /\ LET r == _menu_input(line, 1, SysMaxsize)
           n == IF r.kind = "int" THEN r.val ELSE 0
       IN  /\ n <= most
           /\ \E idx \in [1..n -> 1..Len(current_die._values.items)] :
                /\ Goto(_print_menu_roll(stack, line, current_die, idx))
                /\ shown' = RollsShown(line, current_die, idx)
    /\ current_die' = IF pc' = "RollCount" THEN current_die ELSE NoDie
    /\ UNCHANGED <<_all_dice, storage, values_input, num_values, invalid_values,
                   custom_die>>

RollCount(line) == RollBatch(line, MaxRolls)

\* custom_numerical_die, lines 360-378
Values(line) ==
    /\ pc = "Values"
    /\ inp' = line
    /\ LET r == ParseTokens(Tokens(line))
       IN  IF Len(r.num) > 0
           THEN /\ Goto(Ctl("Name", stack, "none",
                            IF Len(r.invalid) > 0 THEN "invalid_values" ELSE "all_added", 0))
                /\ values_input' = Tokens(line)
                /\ num_values' = r.num
                /\ invalid_values' = r.invalid
           ELSE /\ Goto(Ctl("Values", Append(stack, 373), "none", "no_values", 0))
                /\ values_input' = <<>>
                /\ num_values' = <<>>
                /\ invalid_values' = <<>>
    /\ shown' = NoDisplay
    /\ UNCHANGED <<_all_dice, storage, current_die, custom_die>>

\* custom_numerical_die, lines 379-380, and create_custom_die, lines 336-337
Name(line) ==
    /\ pc = "Name"
    /\ inp' = line
    /\ custom_die' = NumericalDie(ListVal(num_values), line)
    /\ Goto(Ctl("Confirm", Pop(PopWhile(stack, 373)), "none", "summary", 0))
    /\ values_input' = <<>>
    /\ num_values' = <<>>
    /\ invalid_values' = <<>>
    /\ shown' = NoDisplay
    /\ UNCHANGED <<_all_dice, storage, current_die>>

Confirm(line) ==
    /\ pc = "Confirm"
    /\ inp' = line
    /\ Goto(create_custom_die(stack, line))
    /\ LET s == Saved(line, _all_dice, storage, custom_die)
       IN  /\ _all_dice' = s.dice
           /\ storage' = s.store
    /\ custom_die' = IF pc' = "Confirm" THEN custom_die ELSE NoDie
    /\ shown' = NoDisplay
    /\ UNCHANGED <<current_die, values_input, num_values, invalid_values>>

Next ==
    \/ EnsureStorage
    \/ LoadSavedDice
    \/ \E line \in MenuLines : MainMenu(line)
    \/ \E line \in MenuLines : DieMenu(line)
    \/ \E line \in MenuLines : RollCount(line)
    \/ \E line \in FlowLines : Values(line)
    \/ \E line \in NameLines : Name(line)
    \/ \E line \in ConfirmLines : Confirm(line)

Spec == Init /\ [][Next]_vars

(***************************************************************************)
(* The creation flow alone, over every value-entry line of the bound: the  *)
(* program as it stands after "1" at the main menu and the number of       *)
(* "create custom die" at the die-selection menu of a fresh installation.  *)
(***************************************************************************)
\* the line of the documented example, "1, 2, three, 4", and a line with
\* blanks and signs
ExampleLine ==
    <<"1", ",", " ", "2", ",", " ", "t", "h", "r", "e", "e", ",", " ", "4">>

SignedLine == <<"-", "1", " ", ",", "+", "2", ",", "-">>

InitCreate ==
    /\ pc = "Values"
    /\ stack = <<447, 420, 315, 330, 336>>
    /\ error = "none"
    /\ _all_dice = InitialDice
    /\ storage = [dir |-> TRUE, file |-> TRUE, data |-> <<>>]
    /\ inp = FormatInt(NumBuiltin + 1)
    /\ at = "DieMenu"
    /\ msg = "enter_values"
    /\ closing = 0
    /\ current_die = NoDie
    /\ values_input = <<>>
    /\ num_values = <<>>
    /\ invalid_values = <<>>
    /\ custom_die = NoDie
    /\ shown = NoDisplay
    /\ unit = NoCall

NextCreate ==
    \/ \E line \in ValueLines \cup {ExampleLine, SignedLine} : Values(line)
    \/ \E line \in NameLines : Name(line)
    \/ \E line \in ConfirmLines : Confirm(line)

CreateSpec == InitCreate /\ [][NextCreate]_vars

(***************************************************************************)
(* The roll prompt alone, over longer batches: the program as it stands    *)
(* after "1" at the main menu and the number of the one custom die that    *)
(* was loaded at startup.                                                  *)
(***************************************************************************)
InitRoll ==
    /\ pc = "RollCount"
    /\ stack = <<447, 420, 315, 328, 397>>
    /\ error = "none"
    /\ current_die \in CustomDice
    /\ _all_dice = Append(InitialDice, current_die)
    /\ storage = [dir |-> TRUE, file |-> TRUE, data |-> Dump(current_die)]
    /\ inp = FormatInt(NumBuiltin + 1)
    /\ at = "DieMenu"
    /\ msg = "how_many"
    /\ closing = 0
    /\ values_input = <<>>
    /\ num_values = <<>>
    /\ invalid_values = <<>>
    /\ custom_die = NoDie
    /\ shown = NoDisplay
    /\ unit = NoCall

NextRoll == \E line \in MenuLines : RollBatch(line, MaxBatch)

RollSpec == InitRoll /\ [][NextRoll]_vars

(***************************************************************************)
(* The classes and the table helper called directly, one call per          *)
(* behaviour, while the program itself stands still.                       *)
(***************************************************************************)
prog == <<pc, stack, error, _all_dice, storage, inp, at, msg, closing, current_die,
          values_input, num_values, invalid_values, custom_die, shown>>

\* the faces of the dice called directly
UnitValues == {0 - 1, 0, 2}

UnitFaces == SeqsUpTo(UnitValues, MaxFaces) \ {<<>>}

\* dice of the three classes, each with at least one face
UnitDice ==
    {Die(ListVal(f), GenericDieName) : f \in UnitFaces}
    \cup {NumericalDie(ListVal(f), <<"a">>) : f \in UnitFaces}
    \cup {ClassicDie(m, ClassicDieName) : m \in 0..MaxSpots}

\* values handed to NumericalDie(...): ints, and a bool, a float and a str
TypedValues ==
    {[type |-> "int", val |-> 1], [type |-> "int", val |-> 0 - 2],
     [type |-> "bool", val |-> 1], [type |-> "float", val |-> 1],
     [type |-> "str", val |-> 0]}

\* the values of a table
TableValues == {7, 10}

\* Die.roll_multiple or its override in NumericalDie, by the class of the die
RollMultipleOf(die, times, idx) ==
    IF die.cls = "Die"
    THEN [rolls |-> roll_multiple(die, times, idx),
          info  |-> [sum |-> 0, avg |-> [num |-> 0, den |-> 1], max |-> 0, min |-> 0]]
    ELSE numerical_roll_multiple(die, times, idx)

\* what a caller can do to the list get_values() gave it: l[i] = v,
\* l.insert(i, v), del l[i]
Mutations(l) ==
    {[l EXCEPT ![i] = v] : i \in 1..Len(l), v \in UnitValues}
    \cup {SubSeq(l, 1, i) \o <<v>> \o SubSeq(l, i + 1, Len(l)) : i \in 0..Len(l), v \in UnitValues}
    \cup {SubSeq(l, 1, i - 1) \o SubSeq(l, i + 1, Len(l)) : i \in 1..Len(l)}

InitUnit ==
    /\ Init
    /\ storage.file
    /\ storage.data = <<>>

PrintTable ==
    /\ unit.fn = "none"
    /\ \E values \in SeqsUpTo(TableValues, MaxTableLen) :
         \E columns \in (1..MaxColumns) \cup {DefaultColumns} :
            unit' = [fn |-> "_print_table", values |-> values, columns |-> columns,
                     ret |-> _print_table(values, columns, DefaultPadding)]
    /\ UNCHANGED prog

Roll ==
    /\ unit.fn = "none"
    /\ \E self \in UnitDice :
         \E i \in 1..Len(self._values.items) :
            unit' = [fn |-> "roll", before |-> self, self |-> self, ret |-> roll(self, i)]
    /\ UNCHANGED prog

RollMultiple ==
    /\ unit.fn = "none"
    /\ \E self \in UnitDice :
         \E times \in 1..MaxRolls :
            \E idx \in [1..times -> 1..Len(self._values.items)] :
                unit' = [fn |-> "roll_multiple", self |-> self, times |-> times,
                         ret |-> RollMultipleOf(self, times, idx)]
    /\ UNCHANGED prog

Construct ==
    /\ unit.fn = "none"
    /\ \E nums \in SeqsUpTo(TypedValues, MaxFaces) :
         \E name \in NameLines :
            unit' = [fn |-> "NumericalDie", num_values |-> nums, name |-> name,
                     ret |-> NewNumericalDie(nums, name)]
    /\ UNCHANGED prog

ConstructClassic ==
    /\ unit.fn = "none"
    /\ \E max_val \in 0..MaxSpots :
         unit' = [fn |-> "ClassicDie", max_val |-> max_val,
                  ret |-> ClassicDie(max_val, ClassicDieName)]
    /\ UNCHANGED prog

\* a die over a list at address 1, and values = die.get_values()
GetValues ==
    /\ unit.fn = "none"
    /\ \E faces \in UnitFaces :
         LET self == Die(1, GenericDieName)
             r    == Die_get_values(<<faces>>, self)
         IN  unit' = [fn |-> "get_values", heap |-> r.heap, self |-> self,
                      faces |-> faces, values |-> r.ref, changes |-> 0]
    /\ UNCHANGED prog

\* the caller changes the list it was given
Mutate ==
    /\ unit.fn = "get_values"
    /\ unit.changes < MaxMutations
    /\ \E l \in Mutations(unit.heap[unit.values]) :
         unit' = [unit EXCEPT !.heap[unit.values] = l, !.changes = @ + 1]
    /\ UNCHANGED prog

NextUnit ==
    \/ PrintTable
    \/ Roll
    \/ RollMultiple
    \/ Construct
    \/ ConstructClassic
    \/ GetValues
    \/ Mutate

UnitSpec == InitUnit /\ [][NextUnit]_vars

(***************************************************************************)
(* Properties.                                                             *)
(***************************************************************************)
IsPrefix(a, b) == Len(a) <= Len(b) /\ SubSeq(b, 1, Len(a)) = a

IsBack(line) == Len(line) = 4 /\ Lower(line) = <<"b", "a", "c", "k">>

IsInteger(line) == IntParse(line).ok

\* C1: selecting a built-in die at the die-selection menu leads, without an
\* error, to its roll-count prompt, and a batch of one roll is displayed with
\* a result that is one of the faces, counted once, every other face
\* counted zero times.
C1_BuiltinRollOnce ==
    /\ (at = "DieMenu" /\ IsInteger(inp) /\ IntParse(inp).val \in 1..NumBuiltin)
          => (error = "none" /\ pc = "RollCount")
    /\ (shown.printed /\ Len(shown.rolls) = 1)
          => /\ error = "none"
             /\ \E i \in 1..Len(shown.freq) : shown.freq[i].val = shown.rolls[1]
             /\ \A i \in 1..Len(shown.freq) :
                   shown.freq[i].count =
                       IF shown.freq[i].val = shown.rolls[1] THEN 1 ELSE 0

\* C2: at the main menu and at the die-selection menu a line that is neither
\* an integer nor the back command is answered with the error message and
\* the same prompt, and never ends the program.
C2_NonIntegerReprompts ==
    (at \in {"MainMenu", "DieMenu"} /\ ~IsInteger(inp) /\ ~IsBack(inp))
        => (pc = at /\ error = "none" /\ msg = "input_error")

\* C3: the back command at the roll-count prompt, in any letter case, leads
\* to the die-selection menu without a roll and without an error.
C3_BackAtRollCount ==
    (at = "RollCount" /\ IsBack(inp))
        => (pc = "DieMenu" /\ error = "none" /\ ~shown.printed)

\* C4: once the ensure-storage step of the start has run, no error was
\* raised, the directory and the file are both there, and running the step
\* again changes nothing.
C4_EnsureStorage ==
    at = "start"
        => /\ error = "none"
           /\ storage.dir /\ storage.file
           /\ _create_user_dir_file(storage) = [err |-> "none", fs |-> storage]

\* C5: at the confirmation prompt y (either case) appends the confirmed die,
\* and only it, to the end of the registry and its record, and only it, to
\* the end of the store; n (either case) restarts value entry and adds
\* nothing; any other line asks again and changes nothing.
C5_Confirmation ==
    [][pc = "Confirm" =>
          /\ inp' \in {<<"y">>, <<"Y">>} =>
                /\ pc' = "DieMenu" /\ error' = "none"
                /\ _all_dice' = Append(_all_dice, custom_die)
                /\ IsPrefix(storage.data, storage'.data)
                /\ LoadAll(storage'.data, 1).dice
                      = Append(LoadAll(storage.data, 1).dice, custom_die)
          /\ inp' \in {<<"n">>, <<"N">>} =>
                /\ pc' = "Values" /\ error' = "none"
                /\ custom_die' = NoDie
                /\ UNCHANGED <<_all_dice, storage>>
          /\ inp' \notin {<<"y">>, <<"Y">>, <<"n">>, <<"N">>} =>
                /\ pc' = "Confirm" /\ msg' = "enter_y_or_n"
                /\ UNCHANGED <<_all_dice, storage, custom_die>>]_vars

\* a die was confirmed with y and is the one custom die of the registry and
\* the one record of the store
C5_Witness ==
    /\ at = "Confirm" /\ inp \in {<<"y">>, <<"Y">>}
    /\ pc = "DieMenu"
    /\ Len(_all_dice) = NumBuiltin + 1
    /\ storage.data = Dump(_all_dice[NumBuiltin + 1])

\* C6: the load at startup adds to the registry, after the built-in dice,
\* the dice whose records the file holds: as many, with the same class,
\* faces and name, in file order, and then reaches the main menu; and no
\* step changes a record already in the file.
C6_StoreRoundTrip ==
    [][/\ pc = "load" =>
            /\ pc' = "MainMenu" /\ error' = "none"
            /\ \E ds \in SeqsUpTo(CustomDice, MaxCustom) :
                  /\ storage.data = DumpAll(ds)
                  /\ _all_dice' = _all_dice \o ds
       /\ IsPrefix(storage.data, storage'.data)]_vars

\* two different dice were loaded
C6_Witness ==
    /\ at = "load" /\ pc = "MainMenu"
    /\ Len(_all_dice) = NumBuiltin + 2
    /\ _all_dice[NumBuiltin + 1]._values.items /= _all_dice[NumBuiltin + 2]._values.items
    /\ _all_dice[NumBuiltin + 1].name /= _all_dice[NumBuiltin + 2].name

\* the tokens of a line: joined by commas they give the line without its
\* blanks, and none holds a comma
RECURSIVE Join(_)
Join(toks) ==
    IF Len(toks) = 1 THEN toks[1]
    ELSE toks[1] \o <<",">> \o Join(Tail(toks))

TokensOf(line, toks) ==
    /\ Len(toks) >= 1
    /\ \A i \in 1..Len(toks) : \A j \in 1..Len(toks[i]) : toks[i][j] /= ","
    /\ Join(toks) = SelectSeq(line, LAMBDA c : c /= " ")

\* the positions of the tokens that are integers (want = TRUE) or not
Positions(toks, want) == {i \in 1..Len(toks) : IsInteger(toks[i]) = want}

\* the k-th smallest element of a set of numbers
Kth(S, k) == CHOOSE i \in S : Cardinality({j \in S : j < i}) = k - 1

C8_BackExits ==
    /\ (at = "DieMenu" /\ IsBack(inp)) => (pc = "MainMenu" /\ error = "none")
    /\ (at = "MainMenu" /\ IsBack(inp))
          => (pc = "done" /\ error = "none" /\ closing = 1 /\ msg = "closing")
    /\ pc = "done" => (stack = <<>> /\ closing = 1 /\ ~ENABLED Next)
    /\ closing <= 1

\* the program ended by back at the main menu with custom dice registered
C8_Witness ==
    /\ pc = "done" /\ at = "MainMenu" /\ closing = 1
    /\ Len(_all_dice) = NumBuiltin + MaxCustom

\* C9: the back command at the main menu, at the die-selection menu or at
\* the roll-count prompt changes neither the registry nor the storage.
C9_BackFrame ==
    [][(pc \in {"MainMenu", "DieMenu", "RollCount"} /\ IsBack(inp'))
          => UNCHANGED <<_all_dice, storage>>]_vars

\* back was typed with a custom die in the registry and in the store
C9_Witness ==
    /\ at = "MainMenu" /\ IsBack(inp)
    /\ Len(_all_dice) > NumBuiltin
    /\ storage.data /= <<>>

\* C10: the registry is the six built-in dice D4, D6, D8, D10, D12, D20, each
\* a numerical die with that name and the faces 0..M, followed by custom
\* numerical dice.
C10_Registry ==
    /\ Len(_all_dice) >= NumBuiltin
    /\ \A i \in 1..NumBuiltin :
          /\ _all_dice[i].cls \in {"NumericalDie", "ClassicDie"}
          /\ _all_dice[i].name = <<"D">> \o FormatInt(BuiltinSpots[i])
          /\ IsSequence(_all_dice[i]._values)
          /\ _all_dice[i]._values.items = [k \in 1..(BuiltinSpots[i] + 1) |-> k - 1]
    /\ \A i \in (NumBuiltin + 1)..Len(_all_dice) :
          _all_dice[i].cls = "NumericalDie"

\* the cells of a table read row by row, left to right and top to bottom
RECURSIVE Flatten(_)
Flatten(rows) == IF rows = <<>> THEN <<>> ELSE Head(rows) \o Flatten(Tail(rows))

\* C11: rendering N values with c columns raises no error, not even for
\* N = 0, and prints ceil(N/c) rows; read row by row, the cell at position i
\* shows the index i with the i-th value, so that every value appears exactly
\* once.
C11_TableCells ==
    unit.fn = "_print_table" =>
        LET N == Len(unit.values)
            c == unit.columns
            k == Len(unit.ret.rows)
        IN  /\ unit.ret.err = "none"
            /\ c * (k - 1) < N
            /\ N <= c * k
            /\ Flatten(unit.ret.rows) =
                   [i \in 1..N |-> [index |-> i, val |-> unit.values[i]]]

\* the largest option the prompt at p accepts
InputMax(p, dice) ==
    IF p = "MainMenu" THEN 1 ELSE IF p = "DieMenu" THEN Len(dice) + 1 ELSE SysMaxsize

\* what the prompt at p does with a line when the calls of stk are pending
Acted(p, stk, line, dice, die) ==
    IF p = "MainMenu" THEN _print_menu_main(stk, line)
    ELSE IF p = "DieMenu" THEN _print_menu_die(stk, line, dice)
    ELSE _print_menu_roll(stk, line, die, <<>>)

\* C12: at the main menu, the die-selection menu and the roll-count prompt an
\* integer outside the accepted range is answered with the error message and
\* the same prompt, the registry, the store and the selected die unchanged,
\* however many such lines came before; an in-range integer or back is acted
\* on as it is when no line was rejected before it, and the rejected lines
\* leave no pending call behind.
C12_OutOfRangeRetries ==
    [][(pc = "MainMenu" \/ pc = "DieMenu" \/ pc = "RollCount") =>
        LET outside == /\ IsInteger(inp')
                       /\ \/ IntParse(inp').val < 1
                          \/ IntParse(inp').val > InputMax(pc, _all_dice)
            fresh   == Acted(pc, PopWhile(stack, 274), inp', _all_dice, current_die)
        IN  /\ outside =>
                /\ pc' = pc
                /\ error' = "none"
                /\ msg' = "input_error"
                /\ stack' = Append(stack, 274)
                /\ UNCHANGED <<_all_dice, storage, current_die>>
            /\ (~outside /\ (IsInteger(inp') \/ IsBack(inp'))) =>
                /\ msg' /= "input_error"
                /\ \A i \in 1..Len(stack') : stack'[i] /= 274
                /\ pc' = fresh.pc
                /\ stack' = fresh.stack
                /\ error' = fresh.error
                /\ (pc = "MainMenu" /\ IsInteger(inp')) => pc' = "DieMenu"
                /\ (pc = "MainMenu" /\ IsBack(inp')) => pc' = "done"
                /\ (pc = "DieMenu" /\ IsBack(inp')) => pc' = "MainMenu"
                /\ (pc = "DieMenu" /\ IsInteger(inp')
                        /\ IntParse(inp').val > NumBuiltin) =>
                      IF IntParse(inp').val <= Len(_all_dice)
                      THEN pc' = "RollCount" /\ current_die' = _all_dice[IntParse(inp').val]
                      ELSE pc' = "Values"
                /\ (pc = "RollCount" /\ IsInteger(inp')) =>
                      (pc' = "DieMenu" /\ Len(shown'.rolls) = IntParse(inp').val)]_vars

\* two out-of-range integers in a row were rejected at the roll-count prompt
C12_Witness ==
    /\ pc = "RollCount"
    /\ at = "RollCount"
    /\ msg = "input_error"
    /\ Len(stack) >= 2
    /\ stack[Len(stack)] = 274
    /\ stack[Len(stack) - 1] = 274

\* the configured face values of a die
FaceSet(die) == {die._values.items[i] : i \in 1..Len(die._values.items)}

\* C13: on a die of any class with at least one face, roll() returns one of
\* the configured faces and leaves the die as it was, and roll_multiple(n),
\* n >= 1, returns exactly n results, each one of the configured faces.
C13_RollsAreFaces ==
    /\ unit.fn = "roll" =>
          /\ Len(unit.before._values.items) >= 1
          /\ unit.ret \in FaceSet(unit.before)
          /\ unit.self = unit.before
    /\ unit.fn = "roll_multiple" =>
          /\ unit.times >= 1
          /\ Len(unit.ret.rolls) = unit.times
          /\ \A i \in 1..Len(unit.ret.rolls) : unit.ret.rolls[i] \in FaceSet(unit.self)

\* a classic die was rolled MaxRolls times and showed different faces
C13_Witness ==
    /\ unit.fn = "roll_multiple"
    /\ unit.self.cls = "ClassicDie"
    /\ unit.times = MaxRolls
    /\ Len(unit.ret.rolls) = MaxRolls
    /\ unit.ret.rolls[1] /= unit.ret.rolls[MaxRolls]

\* the sum of the first n results of a batch
RECURSIVE Total(_, _)
Total(rolls, n) == IF n = 0 THEN 0 ELSE Total(rolls, n - 1) + rolls[n]

\* C14: for a numerical die and every n >= 1, n = 1 included, the statistics
\* roll_multiple(n) returns are those of the batch returned with them: sum is
\* the sum of the n results, average is sum / n, max is the largest and min
\* the smallest result.
C14_BatchStatistics ==
    (unit.fn = "roll_multiple" /\ unit.self.cls /= "Die") =>
        LET rolls == unit.ret.rolls
            info  == unit.ret.info
            n     == unit.times
        IN  /\ Len(rolls) = n
            /\ info.sum = Total(rolls, n)
            /\ info.avg.den >= 1
            /\ info.avg.num * n = Total(rolls, n) * info.avg.den
            /\ \E i \in 1..n : rolls[i] = info.max
            /\ \A i \in 1..n : rolls[i] <= info.max
            /\ \E i \in 1..n : rolls[i] = info.min
            /\ \A i \in 1..n : info.min <= rolls[i]

\* a numerical die was rolled twice, with two results whose average is no
\* integer
C14_Witness ==
    /\ unit.fn = "roll_multiple"
    /\ unit.self.cls = "NumericalDie"
    /\ unit.times = 2
    /\ unit.ret.info.avg.den = 2
    /\ unit.ret.info.min < unit.ret.info.max

\* C15: constructing a numerical die raises the construction error exactly
\* when at least one of the supplied values is not of type int, and then no
\* die exists; with int values only, the die has exactly those faces, in
\* their order, and the given name.
C15_NumericalDieConstruction ==
    unit.fn = "NumericalDie" =>
        LET nums   == unit.num_values
            nonint == \E i \in 1..Len(nums) : nums[i].type /= "int"
        IN  /\ (unit.ret.err = "ValueError") <=> nonint
            /\ unit.ret.err \in {"ValueError", "none"}
            /\ nonint => unit.ret.die = NoDie
            /\ ~nonint =>
                  /\ unit.ret.die.cls = "NumericalDie"
                  /\ unit.ret.die.name = unit.name
                  /\ Len(unit.ret.die._values.items) = Len(nums)
                  /\ \A i \in 1..Len(nums) : unit.ret.die._values.items[i] = nums[i].val

\* a construction failed over an int followed by a bool
C15_Witness ==
    /\ unit.fn = "NumericalDie"
    /\ Len(unit.num_values) = 2
    /\ unit.num_values[1].type = "int"
    /\ unit.num_values[2].type = "bool"
    /\ unit.ret.err = "ValueError"
    /\ unit.ret.die = NoDie

C17_GetValuesCopy ==
    unit.fn = "get_values" =>
        LET faces == unit.heap[unit.self._values]
            again == Die_get_values(unit.heap, unit.self)
        IN  /\ faces = unit.faces
            /\ again.heap[again.ref] = unit.faces
            /\ again.ref /= unit.self._values
            /\ {faces[i] : i \in 1..Len(faces)}
                  = {unit.faces[i] : i \in 1..Len(unit.faces)}

\* the list that get_values() returned was changed and differs from the faces
C17_Witness ==
    /\ unit.fn = "get_values"
    /\ unit.changes >= 1
    /\ unit.heap[unit.values] /= unit.faces
    /\ unit.heap[unit.self._values] = unit.faces

\* C18: every batch rolled through the menus has a count n, the integer typed
\* at the roll-count prompt, with 1 <= n <= sys.maxsize, so the average is
\* taken over at least one roll; a line at that prompt that is neither an
\* integer nor back, or an integer below 1 or above the maximum, is rejected
\* and the prompt repeated without any roll.
C18_RollCountInRange ==
    /\ shown.printed =>
          /\ at = "RollCount"
          /\ IsInteger(inp)
          /\ 1 <= IntParse(inp).val
          /\ IntParse(inp).val <= SysMaxsize
          /\ Len(shown.rolls) = IntParse(inp).val
          /\ shown.avg.num * Len(shown.rolls) = shown.sum * shown.avg.den
    /\ (at = "RollCount" /\ ~IsBack(inp)
           /\ (~IsInteger(inp) \/ IntParse(inp).val < 1 \/ IntParse(inp).val > SysMaxsize)) =>
          /\ pc = "RollCount"
          /\ error = "none"
          /\ msg \in {"invalid_value", "input_error"}
          /\ ~shown.printed

\* the count 0 was rejected at the roll-count prompt of a custom die
C18_Witness ==
    /\ at = "RollCount"
    /\ inp = <<"0">>
    /\ pc = "RollCount"
    /\ msg = "input_error"
    /\ current_die.cls = "NumericalDie"
    /\ ~shown.printed

\* the registry entries after the built-in dice
CustomEntries(dice) == SubSeq(dice, NumBuiltin + 1, Len(dice))

\* C19: whenever the program waits for a line after the startup load, the
\* custom dice of the registry are, in number, order, faces and names,
\* exactly the records of the storage file; and at no time, not even between
\* prompts or after the program ended, does the registry hold a custom die
\* that the file does not hold at the same position.
C19_RegistryMatchesFile ==
    LET records == LoadAll(storage.data, 1)
    IN  /\ pc \in {"MainMenu", "DieMenu", "RollCount", "Values", "Name", "Confirm"} =>
              /\ storage.file
              /\ records.err = "none"
              /\ CustomEntries(_all_dice) = records.dice
        /\ Len(_all_dice) >= NumBuiltin
        /\ IsPrefix(CustomEntries(_all_dice), records.dice)

\* a die was confirmed when the registry already held a custom die, and the
\* die-selection menu waits with both in the registry and in the file
C19_Witness ==
    /\ at = "Confirm"
    /\ inp \in {<<"y">>, <<"Y">>}
    /\ pc = "DieMenu"
    /\ Len(_all_dice) = NumBuiltin + 2
    /\ Len(LoadAll(storage.data, 1).dice) = 2

\* C20: a valid count n typed at the roll-count prompt of a custom numerical
\* die displays exactly n rolls of that die, the i-th cell showing the i-th
\* roll, with the sum, average, max and min of these rolls and one frequency
\* line per face, and then shows the die-selection menu with the registry and
\* the store unchanged.
C20_RollsDisplayed ==
    [][(pc = "RollCount" /\ current_die.cls = "NumericalDie" /\ IsInteger(inp')
            /\ IntParse(inp').val >= 1 /\ IntParse(inp').val <= SysMaxsize) =>
          LET n     == IntParse(inp').val
              faces == current_die._values.items
              cells == Flatten(shown'.table)
          IN  /\ pc' = "DieMenu"
              /\ error' = "none"
              /\ shown'.printed
              /\ Len(shown'.rolls) = n
              /\ \A i \in 1..n : \E j \in 1..Len(faces) : shown'.rolls[i] = faces[j]
              /\ Len(cells) = n
              /\ \A i \in 1..Len(cells) :
                    i <= n => cells[i] = [index |-> i, val |-> shown'.rolls[i]]
              /\ shown'.sum = Total(shown'.rolls, n)
              /\ shown'.avg.num * n = shown'.sum * shown'.avg.den
              /\ \A i \in 1..n : shown'.min <= shown'.rolls[i] /\ shown'.rolls[i] <= shown'.max
              /\ Len(shown'.freq) = Len(faces)
              /\ \A j \in 1..Len(faces) :
                    /\ shown'.freq[j].val = faces[j]
                    /\ shown'.freq[j].count = Count(shown'.rolls, faces[j])
              /\ UNCHANGED <<_all_dice, storage>>]_vars

=============================================================================
